---- MODULE Spec2Model ----
(***************************************************************************)
(* A model of the session subsystem of node-steamcommunity (src/index.js): *)
(* the cookie jar shared by three domains, login (getrsakey -> dologin ->  *)
(* classification -> session state), setCookies, getClientLogonToken and   *)
(* the _myProfile profile-URL cache with its 60 s eviction timer.          *)
(*                                                                         *)
(* Strings that the code parses are sequences of segments: a cookie value  *)
(* "7656...1%7C%7CtokA" is <<"76561198000000001", "%7C%7C", "tokA">>, so   *)
(* decodeURIComponent, split('||') and the regular expressions are         *)
(* computed, not assumed.                                                  *)
(***************************************************************************)
EXTENDS Integers, Sequences, FiniteSets, TLC

VARIABLES
    jar,          \* this._jar: domain -> cookies in creation order
    captchaGid,   \* this._captchaGid
    steamID,      \* this.steamID
    oAuthToken,   \* this.oAuthToken
    profileURL,   \* this._profileURL
    timers,       \* pending setTimeout callbacks of _myProfile (their due times)
    now,          \* the clock, in ms
    login,        \* login calls: slot -> position, captured locals, what was delivered
    prof,         \* _myProfile calls: slot -> position and what was requested
    tok,          \* getClientLogonToken calls: slot -> position and what was delivered
    expired,      \* the 'sessionExpired' events emitted so far (their errors)
    hist          \* history: the last CAPTCHA challenge delivered to a callback,
                  \* when the cache entry was created, whether a login ran since,
                  \* whether logins overlapped, whether a mobile login sent its
                  \* dologin request without the mobile cookies

vars == <<jar, captchaGid, steamID, oAuthToken, profileURL, timers, now,
          login, prof, tok, expired, hist>>

----------------------------------------------------------------------------
(* Bounds of the model *)

NumProfSlots == 2
NumTokSlots == 3
TicksPerTTL == 2
MaxTicks == 3

(* Program constants *)

CacheTTL == 60000

TickMs == CacheTTL \div TicksPerTTL

----------------------------------------------------------------------------
(* Values *)

Undefined == "undefined"
Null == "null"

\* this._captchaGid = -1
NoCaptchaGid == "-1"

ID1 == "76561198000000001"
ID2 == "76561198000000002"
IDs == {ID1, ID2}

Primary == "steamcommunity.com"
Domains == {"steamcommunity.com", "store.steampowered.com", "help.steampowered.com"}

\* 'steamMachineAuth' + id
MachineAuthName(id) ==
    CASE id = ID1 -> "steamMachineAuth76561198000000001"
      [] id = ID2 -> "steamMachineAuth76561198000000002"
      [] OTHER -> "steamMachineAuthundefined"

MachineAuthNames == {MachineAuthName(i) : i \in IDs}

MobileNames == {"mobileClientVersion", "mobileClient"}

\* Request.cookie('name=value'): a cookie that is not yet in any jar
Cookie(n, v) == [name |-> n, value |-> v, expires |-> FALSE]

\* cookie.expires = new Date(0)
ExpiredCookie(n) == [name |-> n, value |-> <<>>, expires |-> TRUE]

----------------------------------------------------------------------------
(* String functions, computed on segments *)

\* decodeURIComponent: "%7C%7C" is the encoding of "||"
DecodeSeg(s) == IF s = "%7C%7C" THEN "||" ELSE s
DecodeURIComponent(v) == [i \in 1..Len(v) |-> DecodeSeg(v[i])]

\* encodeURIComponent
EncodeSeg(s) == IF s = "||" THEN "%7C%7C" ELSE s
EncodeURIComponent(v) == [i \in 1..Len(v) |-> EncodeSeg(v[i])]

\* index of the first "||" segment of v, or Len(v) + 1
RECURSIVE DelimAt(_, _)
DelimAt(v, i) ==
    IF i > Len(v) THEN i
    ELSE IF v[i] = "||" THEN i ELSE DelimAt(v, i + 1)

\* v.split('||')[0]
SplitPart0(v) == SubSeq(v, 1, DelimAt(v, 1) - 1)

\* v.split('||')[1] (undefined, here <<>>, when there is no delimiter)
SplitPart1(v) ==
    LET a == DelimAt(v, 1)
        rest == SubSeq(v, a + 1, Len(v))
    IN  IF a > Len(v) THEN <<>> ELSE SplitPart0(rest)

\* new SteamID(str): the 64-bit id the string names
NewSteamID(part) ==
    IF Len(part) = 1 /\ part[1] \in IDs THEN part[1] ELSE "invalid"

\* cookie.match(/=(\d+)/)[1] on 'name=value': the digits that follow the '='
LeadingDigits(v) ==
    IF Len(v) >= 1 /\ v[1] \in IDs THEN <<v[1]>> ELSE <<>>

----------------------------------------------------------------------------
(* The cookie jar (tough-cookie): cookies of one domain in creation order; *)
(* a cookie set again keeps its place; an expired cookie is not visible.   *)

NameAt(cs, n) == {i \in 1..Len(cs) : cs[i].name = n}

HasCookie(cs, n) == NameAt(cs, n) # {}

JarRemove(cs, n) == SelectSeq(cs, LAMBDA c : c.name # n)

JarPut(cs, c) ==
    IF HasCookie(cs, c.name)
    THEN [i \in 1..Len(cs) |-> IF cs[i].name = c.name THEN c ELSE cs[i]]
    ELSE Append(cs, c)

\* this._jar.setCookie(cookie, url) for one domain
JarSetCookie(cs, cookie, secure) ==
    IF cookie.expires
    THEN JarRemove(cs, cookie.name)
    ELSE JarPut(cs, [name |-> cookie.name, value |-> cookie.value, secure |-> secure])

\* this._jar.getCookieString('https://' + domain).split(';').map(trim)
CookieStringHttps(j, d) == [i \in 1..Len(j[d]) |-> [name |-> j[d][i].name, value |-> j[d][i].value]]

\* this._jar.getCookieString('http://' + domain): secure cookies are not sent
CookieStringHttp(j, d) ==
    LET vis == SelectSeq(j[d], LAMBDA c : ~c.secure)
    IN  [i \in 1..Len(vis) |-> [name |-> vis[i].name, value |-> vis[i].value]]

\* _setCookie(cookie, secure)
SetCookie(j, cookie, secure) ==
    [d \in Domains |-> JarSetCookie(j[d], cookie, secure)]

\* the response's Set-Cookie headers, stored by the request library for the
\* domain that answered
RECURSIVE StoreResponseCookies(_, _)
StoreResponseCookies(j, cs) ==
    IF cs = <<>> THEN j
    ELSE StoreResponseCookies(
            [j EXCEPT ![Primary] = JarPut(j[Primary], Head(cs))], Tail(cs))

\* deleteMobileCookies()
DeleteMobileCookies(j) ==
    SetCookie(SetCookie(j, ExpiredCookie("mobileClientVersion"), FALSE),
              ExpiredCookie("mobileClient"), FALSE)

\* index of the last "=" segment of v, or 0
LastEq(v) ==
    IF \E i \in 1..Len(v) : v[i] = "="
    THEN CHOOSE i \in 1..Len(v) : v[i] = "=" /\ \A k \in (i + 1)..Len(v) : v[k] # "="
    ELSE 0

\* cookie.match(/(.+)=/)[1] on the string name=value: (.+) is greedy, so the
\* match runs to the last '=' of the string, which may lie in the value
CookieNameOf(c) ==
    IF LastEq(c.value) = 0 THEN <<c.name>>
    ELSE <<c.name, "=">> \o SubSeq(c.value, 1, LastEq(c.value) - 1)

\* /^steamMachineAuth/ and /Secure$/ on one segment
StartsWithMachineAuth(seg) == seg \in MachineAuthNames \cup {MachineAuthName(Undefined)}
EndsInSecure(seg) == seg \in {"steamLoginSecure", "tokSecure"}

\* the secure flag setCookies gives a cookie, from the name it matched
SecureByName(cn) == StartsWithMachineAuth(cn[1]) \/ EndsInSecure(cn[Len(cn)])

\* setCookies(cookies): [jar, steamID] after the forEach. A cookie string is
\* held as the name and the value Request.cookie() parses from it (split at
\* the first '='); the name the code itself matches is CookieNameOf.
RECURSIVE SetCookiesFrom(_, _, _)
SetCookiesFrom(j, sid, cookies) ==
    IF cookies = <<>> THEN [jar |-> j, steamID |-> sid]
    ELSE LET c == Head(cookies)
             cn == CookieNameOf(c)
             sid2 == IF cn \in {<<"steamLogin">>, <<"steamLoginSecure">>}
                     THEN NewSteamID(LeadingDigits(c.value))
                     ELSE sid
         IN  SetCookiesFrom(SetCookie(j, Cookie(c.name, c.value), SecureByName(cn)),
                            sid2, Tail(cookies))

----------------------------------------------------------------------------
(* login(details, callback) *)

\* the login calls the model tells apart: the second is used only where the
\* caller breaks the obligation of one login in flight per instance
LoginSlots == {1, 2}
OneAtATime == {1}

SessionIDs == {"5e551d000000000000000001", "5e551d000000000000000002"}

GuardOf(id) == <<id, "||", "tokA">>

\* a steamLogin / steamLoginSecure value as the server sets it
LoginValue(id) == <<id, "%7C%7C", "tokL">>

HumanityMessages ==
    {"Please verify your humanity by re-entering the characters below."}

\* body.message.match(/Please verify your humanity/)
MatchesHumanity(m) == m \in HumanityMessages

Falsy(s) == s \in {"", Undefined}

\* a body without the oauth field
NoOAuth == [kind |-> "absent", steamid |-> Undefined, oauth_token |-> Undefined]

\* what a call has delivered to its callback
\* (listed: the value of the sessionid entry of the cookie list it was given)
NoCb == [err |-> "none", gid |-> Undefined, sessionID |-> "",
         steamguard |-> <<>>, oauth |-> Undefined, listed |-> <<>>]

\* a response that was never received
NoBody == [success |-> FALSE, emailauth_needed |-> FALSE, requires_twofactor |-> FALSE,
           captcha_needed |-> FALSE, message |-> Undefined, captcha_gid |-> Undefined,
           oauth |-> NoOAuth]
NoResponse == [err |-> FALSE, body |-> NoBody, cookies |-> <<>>]

\* pc: where the call is; guard: the details.steamguard it was given;
\* answered: the callback that ended it and resp: the dologin response that
\* callback was given (the last three kept for the claims)
IdleLogin == [pc |-> "idle", disableMobile |-> FALSE, captchagid |-> Undefined,
              nreq |-> 0, ncb |-> 0, thrown |-> "none", cb |-> NoCb,
              guard |-> <<>>, answered |-> "none", resp |-> NoResponse]

FreePc == {"idle", "done", "thrown"}

\* 'steamMachineAuth' + parts[0]
MachineAuthNameOf(part) ==
    IF Len(part) = 1 THEN MachineAuthName(part[1]) ELSE MachineAuthName(Undefined)

\* lines 64-67: the machine-auth token installed as a secure cookie
InstallSteamguard(j, sg) ==
    IF sg = <<>> THEN j
    ELSE SetCookie(j, Cookie(MachineAuthNameOf(SplitPart0(sg)),
                             EncodeURIComponent(SplitPart1(sg))), TRUE)

\* lines 76-88 with the second cookie left out
InstallMobileCookies_VersionOnly(j, disableMobile) ==
    IF disableMobile THEN j
    ELSE SetCookie(j, Cookie("mobileClientVersion", <<"0 (2.1.3)">>), FALSE)

\* lines 76-88: the two mobile-indicating cookies
InstallMobileCookies(j, disableMobile) ==
    IF disableMobile THEN j
    ELSE SetCookie(SetCookie(j, Cookie("mobileClientVersion", <<"0 (2.1.3)">>), FALSE),
                   Cookie("mobileClient", <<"android">>), FALSE)

\* both mobile-indicating cookies are in the jar of every domain
HasMobileCookies(j) == \A d \in Domains, n \in MobileNames : HasCookie(j[d], n)

\* another login call is between its first request and its last callback
InFlightBeside(s) == \E t \in LoginSlots \ {s} : login[t].pc \in {"rsa", "dologin"}

\* line 60
MissingCredentials(d) == Falsy(d.accountName) \/ Falsy(d.password)

\* login as written with the precondition tested after the token is installed
LoginCall_CheckLate(s, d) ==
    /\ login[s].pc \in FreePc
    /\ IF MissingCredentials(d)
       THEN /\ login' = [login EXCEPT ![s] =
                   [IdleLogin EXCEPT !.pc = "thrown", !.thrown = "precondition"]]
            /\ jar' = InstallSteamguard(jar, d.steamguard)
            /\ UNCHANGED <<profileURL, hist>>
       ELSE /\ jar' = InstallMobileCookies(InstallSteamguard(jar, d.steamguard),
                                           d.disableMobile)
            /\ profileURL' = Undefined
            /\ hist' = [hist EXCEPT !.loginSince = TRUE, !.overlap = InFlightBeside(s)]
            /\ login' = [login EXCEPT ![s] =
                   [IdleLogin EXCEPT !.pc = "rsa", !.disableMobile = d.disableMobile,
                                     !.nreq = 1, !.guard = d.steamguard]]
    /\ UNCHANGED <<captchaGid, steamID, oAuthToken, timers, now, prof, tok, expired>>

\* lines 59-100: the call, up to the getrsakey request being sent
LoginCall(s, d) ==
    /\ login[s].pc \in FreePc
    /\ IF MissingCredentials(d)
       THEN /\ login' = [login EXCEPT ![s] =
                   [IdleLogin EXCEPT !.pc = "thrown", !.thrown = "precondition"]]
            /\ UNCHANGED <<jar, profileURL, hist>>
       ELSE /\ jar' = InstallMobileCookies(InstallSteamguard(jar, d.steamguard),
                                           d.disableMobile)
            /\ profileURL' = Undefined
            /\ hist' = [hist EXCEPT !.loginSince = TRUE, !.overlap = InFlightBeside(s)]
            /\ login' = [login EXCEPT ![s] =
                   [IdleLogin EXCEPT !.pc = "rsa", !.disableMobile = d.disableMobile,
                                     !.nreq = 1, !.guard = d.steamguard]]
    /\ UNCHANGED <<captchaGid, steamID, oAuthToken, timers, now, prof, tok, expired>>

\* the jar when the getrsakey callback returns, with the transport-error
\* path forgetting the cleanup
RsaJar_KeepOnError(r) ==
    IF ~r.err /\ ~(r.mod /\ r.exp) THEN DeleteMobileCookies(jar) ELSE jar

\* lines 104-116: the jar when the getrsakey callback returns
RsaJar(r) ==
    IF r.err \/ ~(r.mod /\ r.exp) THEN DeleteMobileCookies(jar) ELSE jar

\* lines 104-145: the getrsakey callback
RsaResponse(s, r) ==
    /\ login[s].pc = "rsa"
    /\ jar' = RsaJar(r)
    /\ login' = [login EXCEPT ![s] =
          IF r.err
          THEN [@ EXCEPT !.pc = "done", !.ncb = @ + 1, !.answered = "getrsakey",
                         !.cb = [NoCb EXCEPT !.err = "ETIMEDOUT"]]
          ELSE IF ~(r.mod /\ r.exp)
          THEN [@ EXCEPT !.pc = "done", !.ncb = @ + 1, !.answered = "getrsakey",
                         !.cb = [NoCb EXCEPT !.err = "Invalid RSA key received"]]
          ELSE [@ EXCEPT !.pc = "dologin", !.captchagid = captchaGid, !.nreq = @ + 1]]
    /\ hist' = [hist EXCEPT !.bare = @ \/ (/\ login'[s].pc = "dologin"
                                           /\ ~login[s].disableMobile
                                           /\ ~HasMobileCookies(jar'))]
    /\ UNCHANGED <<captchaGid, steamID, oAuthToken, profileURL, timers, now,
                   prof, tok, expired>>

\* lines 155-175 read in another order: two-factor tested before email-guard
Classify_TwoFactorFirst(body, disableMobile) ==
    IF ~body.success /\ body.requires_twofactor THEN "SteamGuardMobile"
    ELSE IF ~body.success /\ body.emailauth_needed THEN "SteamGuard"
    ELSE IF ~body.success /\ body.captcha_needed /\ body.message = Undefined
         THEN "TypeError"
    ELSE IF ~body.success /\ body.captcha_needed /\ MatchesHumanity(body.message)
         THEN "CAPTCHA"
    ELSE IF ~body.success THEN "Rejected"
    ELSE IF ~disableMobile /\ body.oauth.kind \in {"absent", "empty"} THEN "Malformed"
    ELSE "Success"

\* lines 155-175 without the test of line 173
Classify_NoMalformedTest(body, disableMobile) ==
    IF ~body.success /\ body.emailauth_needed THEN "SteamGuard"
    ELSE IF ~body.success /\ body.requires_twofactor THEN "SteamGuardMobile"
    ELSE IF ~body.success /\ body.captcha_needed /\ body.message = Undefined
         THEN "TypeError"
    ELSE IF ~body.success /\ body.captcha_needed /\ MatchesHumanity(body.message)
         THEN "CAPTCHA"
    ELSE IF ~body.success THEN "Rejected"
    ELSE "Success"

\* lines 155-175: the branch the if-chain takes. body.message.match(...) is
\* evaluated only when the two tests before it hold, and throws a TypeError
\* when body.message is undefined.
Classify(body, disableMobile) ==
    IF ~body.success /\ body.emailauth_needed THEN "SteamGuard"
    ELSE IF ~body.success /\ body.requires_twofactor THEN "SteamGuardMobile"
    ELSE IF ~body.success /\ body.captcha_needed /\ body.message = Undefined
         THEN "TypeError"
    ELSE IF ~body.success /\ body.captcha_needed /\ MatchesHumanity(body.message)
         THEN "CAPTCHA"
    ELSE IF ~body.success THEN "Rejected"
    ELSE IF ~disableMobile /\ body.oauth.kind \in {"absent", "empty"} THEN "Malformed"
    ELSE "Success"

\* line 172: body.message || 'Unknown error'
RejectionMessage(body) == IF Falsy(body.message) THEN "Unknown error" ELSE body.message

\* the first cookie named n of a cookie list, or 0
FirstNamed(cookies, n) ==
    IF \E i \in 1..Len(cookies) : cookies[i].name = n
    THEN CHOOSE i \in 1..Len(cookies) :
            /\ cookies[i].name = n
            /\ \A k \in 1..(i - 1) : cookies[k].name # n
    ELSE 0

\* cookies[i].split('=')[1]: the value up to its first '='
SplitEqPart1(v) ==
    IF \E i \in 1..Len(v) : v[i] = "="
    THEN SubSeq(v, 1, (CHOOSE i \in 1..Len(v) :
                          v[i] = "=" /\ \A k \in 1..(i - 1) : v[k] # "=") - 1)
    ELSE v

\* lines 182-196: this.steamID after the mobile / web branch
DerivedSteamID(body, disableMobile, cookies) ==
    IF ~disableMobile
    THEN NewSteamID(<<body.oauth.steamid>>)
    ELSE LET i == FirstNamed(cookies, "steamLogin")
         IN  IF i = 0 THEN steamID
             ELSE NewSteamID(SplitPart0(DecodeURIComponent(SplitEqPart1(cookies[i].value))))

\* lines 198-206 taking the first machine-auth cookie, whatever its identity
FindSteamguard_AnyIdentity(sid, cookies) ==
    IF \E i \in 1..Len(cookies) : cookies[i].name \in MachineAuthNames
    THEN <<sid, "||">> \o DecodeURIComponent(SplitEqPart1(
             cookies[CHOOSE i \in 1..Len(cookies) :
                        /\ cookies[i].name \in MachineAuthNames
                        /\ \A k \in 1..(i - 1) : cookies[k].name \notin MachineAuthNames].value))
    ELSE <<>>

\* lines 198-206: the machine-auth token surfaced to the caller (null: <<>>)
FindSteamguard(sid, cookies) ==
    LET i == FirstNamed(cookies, MachineAuthName(sid))
    IN  IF i = 0 THEN <<>>
        ELSE <<sid, "||">> \o DecodeURIComponent(SplitEqPart1(cookies[i].value))

\* line 178 installing the session token only when the jar holds none
InstallSessionID_KeepEarlier(j, sessionID) ==
    IF HasCookie(j[Primary], "sessionid") THEN j
    ELSE SetCookie(j, Cookie("sessionid", <<sessionID>>), FALSE)

\* line 178: this._setCookie(Request.cookie('sessionid=' + sessionID))
InstallSessionID(j, sessionID) == SetCookie(j, Cookie("sessionid", <<sessionID>>), FALSE)

\* the value of the first cookie named n of a cookie list (<<>>: none)
ValueNamed(cookies, n) ==
    IF FirstNamed(cookies, n) = 0 THEN <<>> ELSE cookies[FirstNamed(cookies, n)].value

\* the setCookies(cookies) call of line 208 left out
AfterSuccess_NoSetCookies(j, sid, cookies) == [jar |-> j, steamID |-> sid]

\* line 208: this.setCookies(cookies)
AfterSuccess(j, sid, cookies) == SetCookiesFrom(j, sid, cookies)

\* this._captchaGid after the callback, the CAPTCHA branch not remembering the id
NextCaptchaGid_Forget(branch, body) == captchaGid

\* line 168: this._captchaGid after the callback
NextCaptchaGid(branch, body) ==
    IF branch = "CAPTCHA" THEN body.captcha_gid ELSE captchaGid

\* the jar at line 148 without the cleanup
JarAtDoLogin_NoCleanup(r) ==
    IF r.err THEN jar ELSE StoreResponseCookies(jar, r.cookies)

\* line 147: the jar after the response's cookies are stored and
\* deleteMobileCookies() has run
JarAtDoLogin(r) ==
    DeleteMobileCookies(IF r.err THEN jar ELSE StoreResponseCookies(jar, r.cookies))

\* lines 146-211: the dologin callback
DoLoginResponse(s, r) ==
    /\ login[s].pc = "dologin"
    /\ LET j1 == JarAtDoLogin(r)
           dm == login[s].disableMobile
           branch == IF r.err THEN "TransportError" ELSE Classify(r.body, dm)
           Deliver(e, g) == [login EXCEPT ![s] =
               [@ EXCEPT !.pc = "done", !.ncb = @ + 1, !.answered = "dologin", !.resp = r,
                         !.cb = [NoCb EXCEPT !.err = e, !.gid = g]]]
       IN  /\ captchaGid' = NextCaptchaGid(branch, r.body)
           /\ CASE branch = "TransportError" ->
                    /\ login' = Deliver("ETIMEDOUT", Undefined)
                    /\ jar' = j1
                    /\ UNCHANGED <<steamID, oAuthToken>>
                [] branch = "SteamGuard" ->
                    /\ login' = Deliver("SteamGuard", Undefined)
                    /\ jar' = j1
                    /\ UNCHANGED <<steamID, oAuthToken>>
                [] branch = "SteamGuardMobile" ->
                    /\ login' = Deliver("SteamGuardMobile", Undefined)
                    /\ jar' = j1
                    /\ UNCHANGED <<steamID, oAuthToken>>
                [] branch = "TypeError" ->
                    /\ login' = [login EXCEPT ![s] =
                          [@ EXCEPT !.pc = "thrown", !.thrown = "TypeError",
                                    !.answered = "dologin", !.resp = r]]
                    /\ jar' = j1
                    /\ UNCHANGED <<steamID, oAuthToken>>
                [] branch = "CAPTCHA" ->
                    /\ login' = Deliver("CAPTCHA", r.body.captcha_gid)
                    /\ jar' = j1
                    /\ UNCHANGED <<steamID, oAuthToken>>
                [] branch = "Rejected" ->
                    /\ login' = Deliver(RejectionMessage(r.body), Undefined)
                    /\ jar' = j1
                    /\ UNCHANGED <<steamID, oAuthToken>>
                [] branch = "Malformed" ->
                    /\ login' = Deliver("Malformed response", Undefined)
                    /\ jar' = j1
                    /\ UNCHANGED <<steamID, oAuthToken>>
                [] branch = "Success" ->
                    \E sessionID \in SessionIDs :
                      LET j2 == InstallSessionID(j1, sessionID)
                          cookies == CookieStringHttps(j2, Primary)
                      IN  IF ~dm /\ r.body.oauth.kind = "garbage"
                          THEN \* JSON.parse throws
                               /\ login' = [login EXCEPT ![s] =
                                     [@ EXCEPT !.pc = "thrown", !.thrown = "SyntaxError",
                                               !.answered = "dologin", !.resp = r]]
                               /\ jar' = j2
                               /\ UNCHANGED <<steamID, oAuthToken>>
                          ELSE LET sid == DerivedSteamID(r.body, dm, cookies)
                                   token == IF dm THEN Null ELSE r.body.oauth.oauth_token
                                   after == AfterSuccess(j2, sid, cookies)
                               IN  /\ jar' = after.jar
                                   /\ steamID' = after.steamID
                                   /\ oAuthToken' = token
                                   /\ login' = [login EXCEPT ![s] =
                                         [@ EXCEPT !.pc = "done", !.ncb = @ + 1,
                                            !.answered = "dologin", !.resp = r,
                                            !.cb = [err |-> Null, gid |-> Undefined,
                                                    sessionID |-> sessionID,
                                                    steamguard |-> FindSteamguard(sid, cookies),
                                                    oauth |-> token,
                                                    listed |-> ValueNamed(cookies, "sessionid")]]]
    /\ hist' = [hist EXCEPT !.lastChallenge =
                    IF login'[s].pc = "done" /\ login'[s].cb.err = "CAPTCHA"
                    THEN login'[s].cb.gid ELSE @]
    /\ UNCHANGED <<profileURL, timers, now, prof, tok, expired>>

\* setCookies(cookies), called by the user of the library
SetCookiesCall(cookies) ==
    /\ LET after == SetCookiesFrom(jar, steamID, cookies)
       IN  /\ jar' = after.jar
           /\ steamID' = after.steamID
    /\ UNCHANGED <<captchaGid, oAuthToken, profileURL, timers, now, login, prof,
                   tok, expired, hist>>

\* the host argument of getSessionID: a scheme and one of the domains
Hosts == [secure : BOOLEAN, domain : Domains]
DefaultHost == [secure |-> FALSE, domain |-> Primary]

\* this._jar.getCookieString(host)
CookieStringFor(j, h) ==
    IF h.secure THEN CookieStringHttps(j, h.domain) ELSE CookieStringHttp(j, h.domain)

\* lines 301-313: getSessionID(host) with `fresh` what generateSessionID()
\* would return. match(/([^=]+)=(.+)/) is null for an empty cookie string and
\* for a cookie with an empty value, and match[1] then throws a TypeError.
GetSessionID(j, h, fresh) ==
    LET cs == CookieStringFor(j, h)
        i == FirstNamed(cs, "sessionid")
        scanned == IF i = 0 THEN 1..Len(cs) ELSE 1..i
    IN  IF cs = <<>> \/ \E k \in scanned : cs[k].value = <<>>
        THEN [result |-> <<"TypeError">>, generated |-> FALSE, jar |-> j]
        ELSE IF i # 0
        THEN [result |-> DecodeURIComponent(cs[i].value), generated |-> FALSE, jar |-> j]
        ELSE [result |-> <<fresh>>, generated |-> TRUE,
              jar |-> SetCookie(j, Cookie("sessionid", <<fresh>>), FALSE)]

\* getSessionID(host), called by the user of the library
GetSessionIDCall(h) ==
    /\ \E fresh \in SessionIDs : jar' = GetSessionID(jar, h, fresh).jar
    /\ UNCHANGED <<captchaGid, steamID, oAuthToken, profileURL, timers, now, login,
                   prof, tok, expired, hist>>

----------------------------------------------------------------------------
(* oAuthLogin(steamguard, token, callback) *)

WGTokenResponses == [err : BOOLEAN, complete : BOOLEAN]

\* lines 216-223: the call, up to the GetWGToken request being sent
OAuthLoginCall(s, sg) ==
    /\ login[s].pc \in FreePc
    /\ login' = [login EXCEPT ![s] =
                    [IdleLogin EXCEPT !.pc = "wgtoken", !.guard = sg, !.nreq = 1]]
    /\ UNCHANGED <<jar, captchaGid, steamID, oAuthToken, profileURL, timers, now,
                   prof, tok, expired, hist>>

\* lines 235-240: the cookie list built from the tokens of the response
OAuthCookies(sg, sessionID) ==
    LET id == NewSteamID(SplitPart0(sg))
    IN  <<[name |-> "steamLogin", value |-> EncodeURIComponent(<<id, "||", "wgtok">>)],
          [name |-> "steamLoginSecure",
           value |-> EncodeURIComponent(<<id, "||", "wgtokS">>)],
          [name |-> MachineAuthName(id), value |-> SplitPart1(sg)],
          [name |-> "sessionid", value |-> sessionID]>>

\* lines 224-244: the GetWGToken callback
OAuthLoginResponse(s, r) ==
    /\ login[s].pc = "wgtoken"
    /\ IF r.err \/ ~r.complete
       THEN /\ login' = [login EXCEPT ![s] =
                   [@ EXCEPT !.pc = "done", !.ncb = @ + 1, !.answered = "wgtoken",
                             !.cb = [NoCb EXCEPT !.err = IF r.err THEN "ETIMEDOUT"
                                                         ELSE "Malformed response"]]]
            /\ UNCHANGED <<jar, steamID>>
       ELSE \E fresh \in SessionIDs :
              LET g == GetSessionID(jar, DefaultHost, fresh)
                  cookies == OAuthCookies(login[s].guard, g.result)
                  after == SetCookiesFrom(g.jar, steamID, cookies)
              IN  IF g.result = <<"TypeError">>
                  THEN /\ login' = [login EXCEPT ![s] =
                              [@ EXCEPT !.pc = "thrown", !.thrown = "TypeError",
                                        !.answered = "wgtoken"]]
                       /\ UNCHANGED <<jar, steamID>>
                  ELSE /\ jar' = after.jar
                       /\ steamID' = after.steamID
                       /\ login' = [login EXCEPT ![s] =
                              [@ EXCEPT !.pc = "done", !.ncb = @ + 1,
                                 !.answered = "wgtoken",
                                 !.cb = [NoCb EXCEPT
                                    !.err = Null,
                                    !.sessionID = GetSessionID(after.jar, DefaultHost,
                                                               fresh).result[1],
                                    !.listed = g.result]]]
    /\ UNCHANGED <<captchaGid, oAuthToken, profileURL, timers, now, prof, tok,
                   expired, hist>>

----------------------------------------------------------------------------
(* getClientLogonToken(callback) *)

TokSlots == 1..NumTokSlots

TokenResponses ==
    [err : BOOLEAN, statusCode : {200, 500}, logged_in : BOOLEAN, complete : BOOLEAN]

NoTokenResponse == [err |-> FALSE, statusCode |-> 0, logged_in |-> FALSE, complete |-> FALSE]

\* an Error object: its message, and the call that created it
NoError == [message |-> "none", by |-> 0]
ErrorOf(m, t) == [message |-> m, by |-> t]

IdleTok == [pc |-> "idle", ncb |-> 0, err |-> NoError, resp |-> NoTokenResponse]

\* _notifySessionExpired(err): this.emit('sessionExpired', err)
NotifySessionExpired(events, e) == Append(events, e)

\* the events after the callback when an expiry already reported is not
\* reported again
TokenEvents_Deduplicated(t, r) ==
    IF ~r.err /\ r.statusCode = 200 /\ ~r.logged_in /\ expired = <<>>
    THEN NotifySessionExpired(expired, ErrorOf("Not Logged In", t))
    ELSE expired

\* lines 256-266: the 'sessionExpired' events after the callback
TokenEvents(t, r) ==
    IF ~r.err /\ r.statusCode = 200 /\ ~r.logged_in
    THEN NotifySessionExpired(expired, ErrorOf("Not Logged In", t))
    ELSE expired

\* lines 256-277: the error the callback is given (NoError: a token)
TokenError(t, r) ==
    IF r.err THEN ErrorOf("ETIMEDOUT", t)
    ELSE IF r.statusCode # 200 THEN ErrorOf("HTTP error 500", t)
    ELSE IF ~r.logged_in THEN ErrorOf("Not Logged In", t)
    ELSE IF ~r.complete THEN ErrorOf("Malformed response", t)
    ELSE NoError

\* lines 251-255: the request is sent
GetClientLogonToken(t) ==
    /\ tok[t].pc = "idle"
    /\ tok' = [tok EXCEPT ![t] = [@ EXCEPT !.pc = "wait"]]
    /\ UNCHANGED <<jar, captchaGid, steamID, oAuthToken, profileURL, timers, now,
                   login, prof, expired, hist>>

\* lines 255-278: the response callback
TokenResponse(t, r) ==
    /\ tok[t].pc = "wait"
    /\ tok' = [tok EXCEPT ![t] =
                  [pc |-> "done", ncb |-> 1, err |-> TokenError(t, r), resp |-> r]]
    /\ expired' = TokenEvents(t, r)
    /\ UNCHANGED <<jar, captchaGid, steamID, oAuthToken, profileURL, timers, now,
                   login, prof, hist>>

----------------------------------------------------------------------------
(* _myProfile(endpoint, form, callback) and its cache *)

ProfSlots == 1..NumProfSlots

ProfilePath(i) ==
    IF i = ID1 THEN "/profiles/76561198000000001"
    ELSE IF i = ID2 THEN "/profiles/76561198000000002"
    ELSE "/id/gabe"

\* response.headers.location.match(/steamcommunity\.com(\/(id|profiles)\/[^/]+)\/?/)
\* (Undefined: no match, as for the redirect to the login page)
LocationMatch(location) ==
    IF location \in {ProfilePath(ID1), ProfilePath(ID2), ProfilePath(Undefined)}
    THEN location ELSE Undefined

MyResponses ==
    [err : BOOLEAN, statusCode : {302, 200},
     location : {ProfilePath(ID1), "/login/home"}]

\* pc: where the call is; issuedMy: it sent the /my request; url: the path
\* its request was completed on; inTTL, pastTTL: how old the cache entry was
\* when the call was made (kept for the claims)
IdleProf == [pc |-> "idle", issuedMy |-> FALSE, url |-> Undefined,
             inTTL |-> FALSE, pastTTL |-> FALSE]

\* lines 503-506: the call, up to the first request being sent
MyProfileCall(p) ==
    /\ prof[p].pc \in {"idle", "done"}
    /\ LET age == [inTTL |-> /\ hist.created >= 0 /\ ~hist.loginSince
                             /\ now - hist.created < CacheTTL,
                   pastTTL |-> hist.created >= 0 /\ now - hist.created > CacheTTL]
       IN  prof' = [prof EXCEPT ![p] =
              IF profileURL # Undefined
              THEN [IdleProf EXCEPT !.pc = "request", !.url = profileURL,
                                    !.inTTL = age.inTTL, !.pastTTL = age.pastTTL]
              ELSE [IdleProf EXCEPT !.pc = "my", !.issuedMy = TRUE,
                                    !.inTTL = age.inTTL, !.pastTTL = age.pastTTL]]
    /\ UNCHANGED <<jar, captchaGid, steamID, oAuthToken, profileURL, timers, now,
                   login, tok, expired, hist>>

\* lines 518-521 with the earlier timers cleared when a new one is armed
ArmTimer_Replacing(due) == {due}

\* lines 519-521: setTimeout(..., 60000); earlier timers stay armed
ArmTimer(due) == timers \cup {due}

\* lines 506-524: the callback of the /my request
MyResponse(p, r) ==
    /\ prof[p].pc = "my"
    /\ IF r.err \/ r.statusCode # 302
       THEN \* callback(err || 'HTTP error ' + response.statusCode)
            /\ prof' = [prof EXCEPT ![p] = [@ EXCEPT !.pc = "done"]]
            /\ UNCHANGED <<profileURL, timers, hist>>
       ELSE IF LocationMatch(r.location) = Undefined
       THEN \* callback(new Error('Can\'t get profile URL'))
            /\ prof' = [prof EXCEPT ![p] = [@ EXCEPT !.pc = "done"]]
            /\ UNCHANGED <<profileURL, timers, hist>>
       ELSE /\ profileURL' = LocationMatch(r.location)
            /\ timers' = ArmTimer(now + CacheTTL)
            /\ hist' = IF profileURL = Undefined
                       THEN [hist EXCEPT !.created = now, !.loginSince = FALSE]
                       ELSE hist
            /\ prof' = [prof EXCEPT ![p] =
                           [@ EXCEPT !.pc = "request", !.url = LocationMatch(r.location)]]
    /\ UNCHANGED <<jar, captchaGid, steamID, oAuthToken, now, login, tok, expired>>

\* line 500: the completed request is answered and the callback runs
RequestDone(p) ==
    /\ prof[p].pc = "request"
    /\ prof' = [prof EXCEPT ![p] = [@ EXCEPT !.pc = "done"]]
    /\ UNCHANGED <<jar, captchaGid, steamID, oAuthToken, profileURL, timers, now,
                   login, tok, expired, hist>>

\* lines 519-521: a timer that is due runs: delete this._profileURL
TimerFire(due) ==
    /\ due \in timers /\ due <= now
    /\ profileURL' = Undefined
    /\ timers' = timers \ {due}
    /\ UNCHANGED <<jar, captchaGid, steamID, oAuthToken, now, login, prof, tok,
                   expired, hist>>

\* time passes; a timer that is due runs before the clock moves on
Tick ==
    /\ now < MaxTicks * TickMs
    /\ \A due \in timers : due > now
    /\ now' = now + TickMs
    /\ UNCHANGED <<jar, captchaGid, steamID, oAuthToken, profileURL, timers,
                   login, prof, tok, expired, hist>>

----------------------------------------------------------------------------
(* The inputs the environment supplies *)

Details ==
    [accountName : {"user", ""}, password : {"pw", Undefined},
     steamguard : {<<>>, GuardOf(ID1)}, disableMobile : BOOLEAN]

RsaResponses == [err : BOOLEAN, mod : BOOLEAN, exp : BOOLEAN]

Messages == {Undefined, "", "Incorrect login."} \cup HumanityMessages

Gids == {"3001", "3002"}

OAuthOf(i) == [kind |-> "json", steamid |-> i, oauth_token |-> "oauthA"]

OAuths ==
    {NoOAuth,
     [kind |-> "empty", steamid |-> Undefined, oauth_token |-> Undefined],
     [kind |-> "garbage", steamid |-> Undefined, oauth_token |-> Undefined],
     OAuthOf(ID1)}

FailBodies ==
    {b \in [success : {FALSE}, emailauth_needed : BOOLEAN, requires_twofactor : BOOLEAN,
            captcha_needed : BOOLEAN, message : Messages,
            captcha_gid : Gids \cup {Undefined}, oauth : {NoOAuth}] :
        b.captcha_needed <=> b.captcha_gid # Undefined}

SuccessBodies ==
    {b \in [success : {TRUE}, emailauth_needed : BOOLEAN, requires_twofactor : BOOLEAN,
            captcha_needed : BOOLEAN, message : {Undefined}, captcha_gid : {Undefined},
            oauth : OAuths] :
        /\ b.emailauth_needed = b.requires_twofactor
        /\ b.requires_twofactor = b.captcha_needed}

\* cookies as the server sets them
ServerLogin(i) == [name |-> "steamLogin", value |-> LoginValue(i), secure |-> FALSE]
ServerLoginSecure(i) == [name |-> "steamLoginSecure", value |-> LoginValue(i), secure |-> TRUE]
ServerMachineAuth(i) == [name |-> MachineAuthName(i), value |-> <<"tokM">>, secure |-> TRUE]

\* a body that asks for a CAPTCHA and nothing else
IsCaptchaBody(b) ==
    /\ ~b.success /\ b.captcha_needed /\ b.message \in HumanityMessages
    /\ ~b.emailauth_needed /\ ~b.requires_twofactor

TransportError ==
    [err |-> TRUE, body |-> CHOOSE b \in FailBodies : TRUE, cookies |-> <<>>]

Responses(bodies, cookieSets) ==
    {[err |-> FALSE, body |-> b, cookies |-> c] : b \in bodies, c \in cookieSets}

----------------------------------------------------------------------------
(* The state after construction (lines 22-57) *)

ConstructorJar ==
    SetCookie(SetCookie([d \in Domains |-> <<>>],
                        Cookie("Steam_Language", <<"english">>), FALSE),
              Cookie("timezoneOffset", <<"0,0">>), FALSE)

Init ==
    /\ jar = ConstructorJar
    /\ captchaGid = NoCaptchaGid
    /\ steamID = Undefined
    /\ oAuthToken = Undefined
    /\ profileURL = Undefined
    /\ timers = {}
    /\ now = 0
    /\ login = [s \in LoginSlots |-> IdleLogin]
    /\ prof = [p \in ProfSlots |-> IdleProf]
    /\ tok = [t \in TokSlots |-> IdleTok]
    /\ expired = <<>>
    /\ hist = [lastChallenge |-> "none", created |-> -1, loginSince |-> FALSE,
               overlap |-> FALSE, bare |-> FALSE]

----------------------------------------------------------------------------
(* SpecClassify: one login at a time, every shape of the two responses *)

ClassifyResponses ==
    {TransportError}
    \cup Responses(FailBodies, {<<>>})
    \cup Responses(SuccessBodies, {<<>>, <<ServerLogin(ID1), ServerLoginSecure(ID1)>>})

NextClassify ==
    \/ \E s \in OneAtATime, d \in Details : LoginCall(s, d)
    \/ \E s \in OneAtATime, r \in RsaResponses : RsaResponse(s, r)
    \/ \E s \in OneAtATime, r \in ClassifyResponses : DoLoginResponse(s, r)

SpecClassify == Init /\ [][NextClassify]_vars

----------------------------------------------------------------------------
(* SpecToken: concurrent getClientLogonToken calls *)

NextToken ==
    \/ \E t \in TokSlots : GetClientLogonToken(t)
    \/ \E t \in TokSlots, r \in TokenResponses : TokenResponse(t, r)

SpecToken == Init /\ [][NextToken]_vars

----------------------------------------------------------------------------
(* SpecProfile: profile-URL resolutions, web logins and the clock *)

ProfileLoginResponses ==
    {TransportError}
    \cup Responses({b \in FailBodies : b.emailauth_needed /\ ~b.requires_twofactor
                                       /\ ~b.captcha_needed /\ b.message = ""}, {<<>>})
    \cup Responses({b \in SuccessBodies : ~b.captcha_needed /\ b.oauth = OAuthOf(ID1)},
                   {<<ServerLogin(ID1), ServerLoginSecure(ID1)>>})

WebDetails ==
    {d \in Details : /\ ~MissingCredentials(d) /\ d.steamguard = <<>> /\ d.disableMobile}

NextProfile ==
    \/ \E s \in OneAtATime, d \in WebDetails : LoginCall(s, d)
    \/ \E s \in OneAtATime, r \in {x \in RsaResponses : x.mod /\ x.exp} : RsaResponse(s, r)
    \/ \E s \in OneAtATime, r \in ProfileLoginResponses : DoLoginResponse(s, r)
    \/ \E p \in ProfSlots : MyProfileCall(p)
    \/ \E p \in ProfSlots, r \in MyResponses : MyResponse(p, r)
    \/ \E p \in ProfSlots : RequestDone(p)
    \/ \E due \in timers : TimerFire(due)
    \/ Tick

SpecProfile == Init /\ [][NextProfile]_vars

----------------------------------------------------------------------------
(* SpecIdentity: successful logins on an instance whose jar already holds   *)
(* login cookies, imported with setCookies or set by the server            *)

\* 'name=value' strings a caller passes to setCookies
ImportLogin(i) == [name |-> "steamLogin", value |-> LoginValue(i)]
ImportLoginSecure(i) == [name |-> "steamLoginSecure", value |-> LoginValue(i)]

CookieLists ==
    {<<ImportLogin(i)>> : i \in IDs}
    \cup {<<ImportLoginSecure(i)>> : i \in IDs}
    \cup {<<ImportLogin(i), ImportLoginSecure(i)>> : i \in IDs}

IdentityDetails == {d \in Details : ~MissingCredentials(d) /\ d.steamguard = <<>>}

IdentityResponses ==
    {TransportError}
    \cup Responses({b \in SuccessBodies : ~b.captcha_needed /\ b.oauth = OAuthOf(ID1)},
                   {<<>>, <<ServerLogin(ID1)>>,
                    <<ServerLogin(ID1), ServerLoginSecure(ID1)>>})

NextIdentity ==
    \/ \E s \in OneAtATime, d \in IdentityDetails : LoginCall(s, d)
    \/ \E s \in OneAtATime, r \in {x \in RsaResponses : x.mod /\ x.exp} : RsaResponse(s, r)
    \/ \E s \in OneAtATime, r \in IdentityResponses : DoLoginResponse(s, r)
    \/ \E cookies \in CookieLists : SetCookiesCall(cookies)

SpecIdentity == Init /\ [][NextIdentity]_vars

----------------------------------------------------------------------------
(* SpecPrecondition: login calls with and without credentials on an        *)
(* instance that holds a session, a CAPTCHA id and a cached profile URL    *)

PreconditionResponses ==
    {TransportError}
    \cup Responses({b \in FailBodies : IsCaptchaBody(b) /\ b.captcha_gid = "3001"}, {<<>>})
    \cup Responses({b \in SuccessBodies : ~b.captcha_needed /\ b.oauth = OAuthOf(ID1)},
                   {<<>>})

NextPrecondition ==
    \/ \E s \in OneAtATime, d \in Details : LoginCall(s, d)
    \/ \E s \in OneAtATime, r \in {x \in RsaResponses : x.mod /\ x.exp} : RsaResponse(s, r)
    \/ \E s \in OneAtATime, r \in PreconditionResponses : DoLoginResponse(s, r)
    \/ \E p \in {1} : MyProfileCall(p)
    \/ \E p \in {1}, r \in MyResponses : MyResponse(p, r)
    \/ \E p \in {1} : RequestDone(p)

SpecPrecondition == Init /\ [][NextPrecondition]_vars

----------------------------------------------------------------------------
(* SpecImport: cookies imported with setCookies, and getSessionID *)

\* a base64 value, whose padding is a '='
PaddedValue(i) == <<i, "%7C%7C", "dG9r", "=">>

ImportCookies ==
    {ImportLogin(ID1), ImportLoginSecure(ID2),
     [name |-> MachineAuthName(ID1), value |-> <<"tokA">>],
     [name |-> "sessionid", value |-> <<"5e551d000000000000000001">>],
     [name |-> "steamLoginSecure", value |-> PaddedValue(ID1)]}

ImportLists ==
    {<<c>> : c \in ImportCookies} \cup {<<c, e>> : c \in ImportCookies, e \in ImportCookies}

NextImport ==
    \/ \E cookies \in ImportLists : SetCookiesCall(cookies)
    \/ \E h \in Hosts : GetSessionIDCall(h)

SpecImport == Init /\ [][NextImport]_vars

----------------------------------------------------------------------------
(* SpecSession: logins, one at a time, on an instance whose session token   *)
(* is also read with getSessionID                                          *)

\* a sessionid cookie set by the server for the domain that answered
ServerSession == [name |-> "sessionid", value |-> <<"5e44">>, secure |-> TRUE]

SessionDetails == {d \in Details : ~MissingCredentials(d) /\ d.steamguard = <<>>}

SessionResponses ==
    {TransportError}
    \cup Responses({b \in SuccessBodies : ~b.captcha_needed /\ b.oauth = OAuthOf(ID1)},
                   {<<>>, <<ServerLogin(ID1)>>, <<ServerSession>>})

NextSession ==
    \/ \E s \in OneAtATime, d \in SessionDetails : LoginCall(s, d)
    \/ \E s \in OneAtATime, r \in {x \in RsaResponses : x.mod /\ x.exp} : RsaResponse(s, r)
    \/ \E s \in OneAtATime, r \in SessionResponses : DoLoginResponse(s, r)
    \/ \E h \in Hosts : GetSessionIDCall(h)

SpecSession == Init /\ [][NextSession]_vars

----------------------------------------------------------------------------
(* SpecGuard: logins, one at a time, with and without a machine-auth token  *)

GuardDetails ==
    [accountName : {"user"}, password : {"pw"},
     steamguard : {<<>>, GuardOf(ID1), GuardOf(ID2)}, disableMobile : BOOLEAN]

GuardResponses ==
    {TransportError}
    \cup Responses({b \in SuccessBodies : ~b.captcha_needed /\ b.oauth = OAuthOf(ID1)},
                   {<<>>, <<ServerLogin(ID1)>>,
                    <<ServerLogin(ID1), ServerMachineAuth(ID1)>>})

NextGuard ==
    \/ \E s \in OneAtATime, d \in GuardDetails : LoginCall(s, d)
    \/ \E s \in OneAtATime, r \in {x \in RsaResponses : x.mod /\ x.exp} : RsaResponse(s, r)
    \/ \E s \in OneAtATime, r \in GuardResponses : DoLoginResponse(s, r)

SpecGuard == Init /\ [][NextGuard]_vars

----------------------------------------------------------------------------
(* SpecOverlap: two login calls on one instance, free to overlap *)

OverlapDetails == {d \in Details : ~MissingCredentials(d) /\ d.steamguard = <<>>}

OverlapResponses ==
    {TransportError}
    \cup Responses({b \in SuccessBodies : ~b.captcha_needed /\ b.oauth = OAuthOf(ID1)},
                   {<<ServerLogin(ID1)>>})

NextOverlap ==
    \/ \E s \in LoginSlots, d \in OverlapDetails : LoginCall(s, d)
    \/ \E s \in LoginSlots, r \in {x \in RsaResponses : x.mod = x.exp} : RsaResponse(s, r)
    \/ \E s \in LoginSlots, r \in OverlapResponses : DoLoginResponse(s, r)

SpecOverlap == Init /\ [][NextOverlap]_vars

----------------------------------------------------------------------------
(* SpecStale: the identity changes (setCookies, oAuthLogin, login) while    *)
(* profile URLs are resolved; the server answers /my for the identity      *)
(* whose login cookie it is sent                                           *)

\* the identity the server reads from the login cookies of the jar
ServerIdentity(j) ==
    LET v == IF ValueNamed(j[Primary], "steamLoginSecure") # <<>>
             THEN ValueNamed(j[Primary], "steamLoginSecure")
             ELSE ValueNamed(j[Primary], "steamLogin")
    IN  IF v # <<>> /\ v[1] \in IDs THEN v[1] ELSE Undefined

\* /my redirects to the profile of that identity, or to the login page
StaleMyResponses(j) ==
    {[err |-> TRUE, statusCode |-> 302, location |-> "/login/home"],
     [err |-> FALSE, statusCode |-> 302,
      location |-> IF ServerIdentity(j) \in IDs THEN ProfilePath(ServerIdentity(j))
                   ELSE "/login/home"]}

StaleLists == {<<ImportLogin(i), ImportLoginSecure(i)>> : i \in IDs}

StaleLoginResponses ==
    {TransportError}
    \cup Responses({b \in SuccessBodies : ~b.captcha_needed /\ b.oauth = OAuthOf(ID1)},
                   {<<ServerLogin(ID1), ServerLoginSecure(ID1)>>})

NextStale ==
    \/ \E cookies \in StaleLists : SetCookiesCall(cookies)
    \/ \E s \in OneAtATime, i \in IDs : OAuthLoginCall(s, GuardOf(i))
    \/ \E s \in OneAtATime, r \in WGTokenResponses : OAuthLoginResponse(s, r)
    \/ \E s \in OneAtATime, d \in WebDetails : LoginCall(s, d)
    \/ \E s \in OneAtATime, r \in {x \in RsaResponses : x.mod /\ x.exp} : RsaResponse(s, r)
    \/ \E s \in OneAtATime, r \in StaleLoginResponses : DoLoginResponse(s, r)
    \/ \E p \in {1} : MyProfileCall(p)
    \/ \E p \in {1}, r \in StaleMyResponses(jar) : MyResponse(p, r)
    \/ \E p \in {1} : RequestDone(p)

SpecStale == Init /\ [][NextStale]_vars

----------------------------------------------------------------------------
(* Claims about the classification of the dologin response *)

\* the outcome the documented priority order gives a response: email-guard,
\* two-factor, CAPTCHA (flag and message), rejection, malformed, success
DocumentedOutcome(body, disableMobile) ==
    IF ~body.success
    THEN IF body.emailauth_needed THEN "SteamGuard"
         ELSE IF body.requires_twofactor THEN "SteamGuardMobile"
         ELSE IF body.captcha_needed /\ body.message \in HumanityMessages THEN "CAPTCHA"
         ELSE IF body.message \in {Undefined, ""} THEN "Unknown error"
         ELSE body.message
    ELSE IF ~disableMobile /\ body.oauth.kind \in {"absent", "empty"}
         THEN "Malformed response"
         ELSE Null

WellFormed(r) == ~r.err /\ r.body.oauth.kind # "garbage"

\* C1: every dologin response is classified in the priority order email-guard,
\* two-factor, CAPTCHA, rejection, malformed, success, and exactly one outcome
\* is delivered to the callback.
C1_OneOutcomeInPriorityOrder ==
    \A s \in LoginSlots :
        (login[s].answered = "dologin" /\ WellFormed(login[s].resp)) =>
            /\ login[s].pc = "done"
            /\ login[s].ncb = 1
            /\ login[s].cb.err = DocumentedOutcome(login[s].resp.body, login[s].disableMobile)

\* C1, the part the code keeps: an outcome that is delivered is the one the
\* priority order gives.
C1_DeliveredFollowsPriority ==
    \A s \in LoginSlots :
        (login[s].answered = "dologin" /\ WellFormed(login[s].resp) /\ login[s].pc = "done") =>
            /\ login[s].ncb = 1
            /\ login[s].cb.err = DocumentedOutcome(login[s].resp.body, login[s].disableMobile)

\* C2: a CAPTCHA challenge is delivered with the captcha_gid the server
\* returned; every login that builds its form afterwards submits the gid of
\* the last challenge delivered, and -1 when none was ever delivered.
C2_CaptchaGidRemembered ==
    [][\A s \in LoginSlots :
        /\ (/\ login'[s].answered = "dologin" /\ ~login'[s].resp.err
            /\ IsCaptchaBody(login'[s].resp.body)) =>
                /\ login'[s].pc = "done"
                /\ login'[s].cb.err = "CAPTCHA"
                /\ login'[s].cb.gid = login'[s].resp.body.captcha_gid
        /\ (login[s].pc = "rsa" /\ login'[s].pc = "dologin") =>
                login'[s].captchagid =
                    (IF hist.lastChallenge = "none" THEN "-1" ELSE hist.lastChallenge)]_vars

\* C2 witness: a login is submitting the gid of an earlier challenge.
C2_Witness ==
    \E s \in LoginSlots :
        /\ login[s].pc = "dologin"
        /\ login[s].captchagid \in Gids
        /\ login[s].captchagid = hist.lastChallenge

\* the value of the sessionid cookie of a domain (<<>>: none)
SessionCookie(j, d) ==
    LET i == FirstNamed(j[d], "sessionid")
    IN  IF i = 0 THEN <<>> ELSE j[d][i].value

\* C6: a mobile login whose response has success true and no oauth field
\* delivers 'Malformed response'; no session token is generated or installed,
\* and the identity and the OAuth token stay as they were.
C6_MalformedLeavesSession ==
    [][\A s \in LoginSlots :
          (/\ login[s].pc = "dologin" /\ login'[s].answered = "dologin"
           /\ ~login'[s].resp.err /\ ~login[s].disableMobile
           /\ login'[s].resp.body.success /\ login'[s].resp.body.oauth.kind = "absent") =>
              /\ login'[s].pc = "done"
              /\ login'[s].cb.err = "Malformed response"
              /\ login'[s].cb.sessionID = ""
              /\ \A d \in Domains : SessionCookie(jar', d) = SessionCookie(jar, d)
              /\ steamID' = steamID
              /\ oAuthToken' = oAuthToken]_vars

\* C6 witness: a mobile login has ended with 'Malformed response' on an
\* instance that already holds an identity and a session cookie.
C6_Witness ==
    \E s \in LoginSlots :
        /\ login[s].pc = "done" /\ ~login[s].disableMobile
        /\ login[s].cb.err = "Malformed response"
        /\ steamID \in IDs
        /\ SessionCookie(jar, Primary) # <<>>

NoMobileCookies(j) == \A d \in Domains, n \in MobileNames : ~HasCookie(j[d], n)

TerminalErrors == {"ETIMEDOUT", "Invalid RSA key received", "Malformed response"}

\* C9: when a login ends in a transport error, an invalid RSA key or a
\* malformed response, both mobile cookies are gone from all three domains when
\* the callback runs, and a non-mobile login that follows starts without them.
C9_MobileCookiesCleaned ==
    [][\A s \in LoginSlots :
        /\ (/\ login[s].pc \in {"rsa", "dologin"} /\ login'[s].pc = "done"
            /\ login'[s].cb.err \in TerminalErrors) => NoMobileCookies(jar')
        /\ (/\ login[s].pc = "done" /\ login[s].cb.err \in TerminalErrors
            /\ login'[s].pc = "rsa" /\ login'[s].disableMobile) => NoMobileCookies(jar')]_vars

\* C9 witness: a mobile login has ended in a transport error.
C9_Witness ==
    \E s \in LoginSlots :
        /\ login[s].pc = "done" /\ ~login[s].disableMobile
        /\ login[s].cb.err = "ETIMEDOUT"

\* C10: login with an empty or missing accountName or password throws; it
\* issues no request, never invokes the callback and leaves the jar, the cached
\* profile URL, the CAPTCHA id, the identity and the OAuth token unchanged.
C10_PreconditionFailsFast ==
    [][\A s \in LoginSlots, d \in Details :
          (/\ (d.accountName \in {"", Undefined} \/ d.password \in {"", Undefined})
           /\ LoginCall(s, d)) =>
              /\ login'[s].pc = "thrown"
              /\ login'[s].nreq = 0
              /\ login'[s].ncb = 0
              /\ UNCHANGED <<jar, profileURL, captchaGid, steamID, oAuthToken>>]_vars

\* C10 witness: a call has thrown the precondition error on an instance that
\* holds an identity, an OAuth token, a CAPTCHA id and a cached profile URL.
C10_Witness ==
    \E s \in LoginSlots :
        /\ login[s].pc = "thrown" /\ login[s].thrown = "precondition"
        /\ login[s].nreq = 0 /\ login[s].ncb = 0
        /\ steamID \in IDs /\ oAuthToken = "oauthA"
        /\ captchaGid \in Gids /\ profileURL # Undefined

----------------------------------------------------------------------------
(* Claims about the profile-URL cache *)

\* C3: a _myProfile call made within 60 s of the creation of the cache entry
\* (no login since) is served from the cache and issues no /my request; a call
\* made more than 60 s after the entry was created issues a /my request.
C3_OneRequestPerTTL ==
    \A p \in ProfSlots :
        /\ prof[p].inTTL => ~prof[p].issuedMy
        /\ prof[p].pastTTL => prof[p].issuedMy

\* C3, the part the code keeps: no entry outlives 60 s, so a call made more
\* than 60 s after the entry was created issues a /my request.
C3_ExpiredIssuesRequest ==
    /\ \A p \in ProfSlots : prof[p].pastTTL => prof[p].issuedMy
    /\ (profileURL # Undefined) => now - hist.created <= CacheTTL

\* C4: when a login completes successfully, no cached profile URL is held,
\* whatever ran between its start and its completion.
C4_NoCacheAfterLogin ==
    [][\A s \in LoginSlots :
          (login[s].pc = "dologin" /\ login'[s].pc = "done" /\ login'[s].cb.err = Null)
              => profileURL' = Undefined]_vars

----------------------------------------------------------------------------
(* Claims about session expiry *)

NotLoggedIn(r) == ~r.err /\ r.statusCode = 200 /\ ~r.logged_in

Detections == {t \in TokSlots : tok[t].pc = "done" /\ NotLoggedIn(tok[t].resp)}

EventsOf(t) == {i \in 1..Len(expired) : expired[i].by = t}

\* C5: a getClientLogonToken call that receives a body with logged_in false
\* gives its caller the 'Not Logged In' error once and emits one sessionExpired
\* event carrying that error; there are as many events as detections.
C5_OneEventPerDetection ==
    /\ \A t \in Detections :
          /\ tok[t].ncb = 1
          /\ tok[t].err.message = "Not Logged In"
          /\ Cardinality(EventsOf(t)) = 1
          /\ \A i \in EventsOf(t) : expired[i] = tok[t].err
    /\ Len(expired) = Cardinality(Detections)

\* C5 witness: two calls have detected the expiry and a third has not.
C5_Witness ==
    /\ Cardinality(Detections) = 2
    /\ \E t \in TokSlots : tok[t].pc = "done" /\ t \notin Detections

----------------------------------------------------------------------------
(* Claims about the identity a successful login leaves *)

Succeeds(s) ==
    login[s].pc = "dologin" /\ login'[s].pc = "done" /\ login'[s].cb.err = Null

\* C7: after a successful mobile login the identity is the one in the OAuth
\* payload and the OAuth token is the payload's oauth_token, whatever
\* steamLogin / steamLoginSecure cookies the jar held before.
C7_IdentityFromOAuth ==
    [][\A s \in LoginSlots :
          (Succeeds(s) /\ ~login[s].disableMobile) =>
              /\ steamID' = login'[s].resp.body.oauth.steamid
              /\ oAuthToken' = login'[s].resp.body.oauth.oauth_token]_vars

\* C7, the part the code keeps: the OAuth token is the payload's.
C7_TokenFromOAuth ==
    [][\A s \in LoginSlots :
          (Succeeds(s) /\ ~login[s].disableMobile) =>
              oAuthToken' = login'[s].resp.body.oauth.oauth_token]_vars

\* the <id> of a steamLogin=<id>||... cookie among the cookies of the primary
\* domain ({}: there is no such cookie)
SteamLoginIds(j) ==
    {j[Primary][i].value[1] : i \in NameAt(j[Primary], "steamLogin")}

\* C8: with mobile login disabled, a successful login whose resulting cookies
\* contain steamLogin=<id>||... sets the identity to <id>, sets the OAuth token
\* to null and delivers null as the OAuth token.
C8_IdentityFromSteamLogin ==
    [][\A s \in LoginSlots :
          (Succeeds(s) /\ login[s].disableMobile /\ SteamLoginIds(jar') # {}) =>
              /\ steamID' \in SteamLoginIds(jar')
              /\ oAuthToken' = Null
              /\ login'[s].cb.oauth = Null]_vars

\* C8, the part the code keeps: no OAuth token is produced.
C8_NoOAuthToken ==
    [][\A s \in LoginSlots :
          (Succeeds(s) /\ login[s].disableMobile) =>
              oAuthToken' = Null /\ login'[s].cb.oauth = Null]_vars

----------------------------------------------------------------------------
(* Claims about imported cookies *)

\* the names that start with steamMachineAuth or end in Secure
NamedSecure(n) == StartsWithMachineAuth(n) \/ EndsInSecure(n)

\* the cookie named n is in the jar of every domain, with the flag `secure`
PresentEverywhere(j, n, secure) ==
    \A d \in Domains :
        \E i \in 1..Len(j[d]) : j[d][i].name = n /\ j[d][i].secure = secure

\* the identities named by the steamLogin / steamLoginSecure cookies of a list
ListedIdentities(cookies) ==
    {cookies[i].value[1] : i \in {k \in 1..Len(cookies) :
                                     cookies[k].name \in {"steamLogin", "steamLoginSecure"}}}

ImportedRight(cookies) ==
    /\ \A i \in 1..Len(cookies) :
          PresentEverywhere(jar', cookies[i].name, NamedSecure(cookies[i].name))
    /\ ListedIdentities(cookies) # {} => steamID' \in ListedIdentities(cookies)

\* C11: every cookie of a list given to setCookies ends up under all three
\* domains with one secure flag, true exactly when its name starts with
\* steamMachineAuth or ends in Secure, and the identity is set from the digits
\* of the steamLogin / steamLoginSecure cookies of the list.
C11_ImportedEverywhere ==
    [][\A cookies \in ImportLists : ImportedRight(cookies) \/ ~SetCookiesCall(cookies)]_vars

\* C11, the part the code keeps: it holds for the lists whose values hold no '='.
C11_ImportedWithoutEquals ==
    [][\A cookies \in ImportLists :
          \/ \E i \in 1..Len(cookies) : LastEq(cookies[i].value) # 0
          \/ ImportedRight(cookies)
          \/ ~SetCookiesCall(cookies)]_vars

----------------------------------------------------------------------------
(* Claims about the session token *)

\* C12: a successful login generates a session token, installs it as the
\* sessionid cookie in place of any earlier one and delivers it, in the
\* callback's argument and in the cookie list; getSessionID() then returns it
\* and generates none; getSessionID generates and installs a token only when no
\* sessionid cookie is visible for the host.
C12_SessionTokenInstalled ==
    [][/\ \A s \in LoginSlots :
             Succeeds(s) =>
                 /\ login'[s].cb.sessionID \in SessionIDs
                 /\ \A d \in Domains : SessionCookie(jar', d) = <<login'[s].cb.sessionID>>
                 /\ login'[s].cb.listed = <<login'[s].cb.sessionID>>
                 /\ \A fresh \in SessionIDs :
                       GetSessionID(jar', DefaultHost, fresh) =
                           [result |-> <<login'[s].cb.sessionID>>, generated |-> FALSE,
                            jar |-> jar']
       /\ (login' = login /\ jar' # jar) =>
             \E h \in Hosts :
                 /\ ValueNamed(CookieStringFor(jar, h), "sessionid") = <<>>
                 /\ ValueNamed(CookieStringFor(jar', h), "sessionid") # <<>>]_vars

\* C12 witness: a login has succeeded on an instance whose jar already held a
\* sessionid cookie (it is older than the login cookie the server set), and
\* the jar holds the token the login delivered.
C12_Witness ==
    \E s \in LoginSlots :
        /\ login[s].pc = "done" /\ login[s].cb.err = Null
        /\ FirstNamed(jar[Primary], "sessionid") # 0
        /\ FirstNamed(jar[Primary], "steamLogin") > FirstNamed(jar[Primary], "sessionid")
        /\ SessionCookie(jar, Primary) = <<login[s].cb.sessionID>>

----------------------------------------------------------------------------
(* Claims about the machine-auth token *)

\* the identity a successful login derives: the one of the OAuth payload, or
\* the one of the steamLogin cookie ({}: there is none to derive)
DerivedIdentities(s) ==
    IF ~login[s].disableMobile THEN {login'[s].resp.body.oauth.steamid}
    ELSE SteamLoginIds(jar')

\* C13: a machine-auth token '<identity>||<token>' given to login is a secure
\* steamMachineAuth<identity> cookie of all three domains when the first
\* request is sent; a successful login delivers '<identity>||<value>' for the
\* machine-auth cookie of the derived identity, null when there is none; a
\* token given for X comes back unchanged from a successful login as X when
\* the server set no machine-auth cookie.
C13_MachineAuthToken ==
    [][\A s \in LoginSlots :
        /\ (login[s].pc \in FreePc /\ login'[s].pc = "rsa" /\ login'[s].guard # <<>>) =>
              /\ login'[s].nreq = 1
              /\ PresentEverywhere(jar', MachineAuthName(login'[s].guard[1]), TRUE)
              /\ DecodeURIComponent(ValueNamed(jar'[Primary],
                        MachineAuthName(login'[s].guard[1]))) = <<login'[s].guard[3]>>
        /\ Succeeds(s) =>
              \A id \in DerivedIdentities(s) :
                  LET v == ValueNamed(jar'[Primary], MachineAuthName(id))
                  IN  /\ login'[s].cb.steamguard =
                            (IF v = <<>> THEN <<>> ELSE <<id, "||">> \o DecodeURIComponent(v))
                      /\ (/\ login[s].guard # <<>> /\ login[s].guard[1] = id
                          /\ \A i \in 1..Len(login'[s].resp.cookies) :
                                login'[s].resp.cookies[i].name \notin MachineAuthNames)
                            => login'[s].cb.steamguard = login[s].guard]_vars

\* C13 witness: a login given a token for an identity has succeeded as that
\* identity and has delivered the token.
C13_Witness ==
    \E s \in LoginSlots :
        /\ login[s].pc = "done" /\ login[s].cb.err = Null
        /\ login[s].guard = GuardOf(ID1)
        /\ login[s].cb.steamguard = GuardOf(ID1)

----------------------------------------------------------------------------
(* Claims about rejections and about the callback *)

\* a failed response with no email-guard flag, no two-factor flag, and not
\* the CAPTCHA flag together with the humanity message
IsRejectionBody(b) ==
    /\ ~b.success /\ ~b.emailauth_needed /\ ~b.requires_twofactor
    /\ ~(b.captcha_needed /\ b.message \in HumanityMessages)

\* C14: such a response yields a rejection carrying the server's message, or
\* 'Unknown error' when the message is absent or empty, also when the CAPTCHA
\* flag is set and the message is absent or does not match.
C14_RejectionCarriesMessage ==
    \A s \in LoginSlots :
        (/\ login[s].answered = "dologin" /\ ~login[s].resp.err
         /\ IsRejectionBody(login[s].resp.body)) =>
            /\ login[s].pc = "done"
            /\ login[s].cb.err = (IF login[s].resp.body.message \in {Undefined, ""}
                                  THEN "Unknown error" ELSE login[s].resp.body.message)

\* C14, the part the code keeps: it holds unless the CAPTCHA flag is set and
\* the message is absent.
C14_RejectionUnlessFlagWithoutMessage ==
    \A s \in LoginSlots :
        (/\ login[s].answered = "dologin" /\ ~login[s].resp.err
         /\ IsRejectionBody(login[s].resp.body)
         /\ ~(login[s].resp.body.captcha_needed /\ login[s].resp.body.message = Undefined)) =>
            /\ login[s].pc = "done"
            /\ login[s].cb.err = (IF login[s].resp.body.message \in {Undefined, ""}
                                  THEN "Unknown error" ELSE login[s].resp.body.message)

\* C17: a login call that passes the precondition check invokes its callback
\* exactly once, whatever the getrsakey and dologin responses hold: when a
\* response callback has run, the call has delivered one outcome.
C17_CallbackExactlyOnce ==
    \A s \in LoginSlots :
        /\ login[s].ncb <= 1
        /\ login[s].answered # "none" => (login[s].pc = "done" /\ login[s].ncb = 1)

\* C17, the part the code keeps: the callback is never invoked twice, and a
\* call whose response callback returned normally has invoked it once.
C17_CallbackAtMostOnce ==
    \A s \in LoginSlots :
        /\ login[s].ncb <= 1
        /\ login[s].pc = "done" => login[s].ncb = 1

----------------------------------------------------------------------------
(* Claims about the eviction timer *)

\* C15: a cached profile URL stays for 60 s after its own creation unless a
\* login invalidates it: a timer that fires evicts only an entry that is 60 s
\* old, never a later entry created after an invalidation.
C15_TimerEvictsOnlyOldEntry ==
    [][(timers' # timers /\ profileURL # Undefined /\ profileURL' = Undefined)
          => now - hist.created >= CacheTTL]_vars

----------------------------------------------------------------------------
(* Claims about overlapping logins *)

\* the call sends a request in this step: getrsakey or dologin
SendsRequest(s) ==
    \/ login[s].pc \in FreePc /\ login'[s].pc = "rsa"
    \/ login[s].pc = "rsa" /\ login'[s].pc = "dologin"

\* C16: a mobile login that no other login overlaps sends its getrsakey
\* request and its dologin request with both mobile cookies in the jar; with
\* two logins overlapping, a dologin request can go out without them.
C16_MobileCookiesWhenAlone ==
    [][\A s \in LoginSlots :
          (SendsRequest(s) /\ ~login'[s].disableMobile /\ ~hist'.overlap)
              => HasMobileCookies(jar')]_vars

\* C16 witness: a mobile login that overlapped another has sent its dologin
\* request without the mobile cookies, and a later mobile login, alone, has
\* sent its own with them.
C16_Witness ==
    /\ hist.bare
    /\ ~hist.overlap
    /\ \E s \in LoginSlots :
          login[s].pc = "dologin" /\ ~login[s].disableMobile /\ HasMobileCookies(jar)

----------------------------------------------------------------------------
(* Claims about what a failed login leaves *)

SessionStateUnchanged ==
    /\ steamID' = steamID
    /\ oAuthToken' = oAuthToken
    /\ \A d \in Domains : SessionCookie(jar', d) = SessionCookie(jar, d)

\* C18: only a successful login changes the identity, the OAuth token and the
\* sessionid cookie: every step of a login that does not complete it
\* successfully leaves the three as they were.
C18_FailureLeavesSession ==
    [][(\A s \in LoginSlots : ~Succeeds(s)) => SessionStateUnchanged]_vars

\* C18, the part the code keeps: a login that ends with an error delivered to
\* its callback has left the three as they were.
C18_DeliveredFailureLeavesSession ==
    [][(/\ \A s \in LoginSlots : ~Succeeds(s)
        /\ \A s \in LoginSlots : login'[s].pc # "thrown") => SessionStateUnchanged]_vars

----------------------------------------------------------------------------
(* Claims about the cached profile URL and the identity *)

\* C19: a cached profile URL was resolved under the identity the instance
\* holds: a _myProfile call that is served from the cache requests the path
\* of the profile of the current identity.
C19_CachedPathOfCurrentIdentity ==
    [][\A p \in ProfSlots :
          (prof[p].pc \in {"idle", "done"} /\ prof'[p].pc = "request")
              => prof'[p].url = ProfilePath(steamID)]_vars

\* C19, the part the code keeps: the path is cached for the identity whose
\* cookies the jar holds when /my answers.
C19_CachedForServerIdentity ==
    [][\A p \in ProfSlots :
          (prof[p].pc = "my" /\ prof'[p].pc = "request")
              => profileURL' = ProfilePath(ServerIdentity(jar))]_vars

====
